---- MODULE Spec2Model ----
(***************************************************************************)
(* Model of pyfreelan/api/log.py: the binding that marshals log entries    *)
(* between Python and the native freelan logging interface.                *)
(*                                                                         *)
(* Python values are records [t, s, n]: t is the Python 2 type name, s the *)
(* code points (unicode) or bytes (str) of a string, n the number of an    *)
(* int, a float or a bool (1/0).  Native strings are NUL-terminated byte   *)
(* sequences; a char* is a record [null, mem].                             *)
(***************************************************************************)
EXTENDS Integers, Sequences, FiniteSets, TLC

\* ---------------------------------------------------------------- bounds
MaxPayload == 2        \* pairs in the payload dictionary given to log()
MaxPayloadSize == 2    \* payload_size handed to logging_callback

\* ------------------------------------------------------- Python 2 values
PyUnicode(cps) == [t |-> "unicode", s |-> cps, n |-> 0]
PyStr(bytes) == [t |-> "str", s |-> bytes, n |-> 0]
PyInt(i) == [t |-> "int", s |-> <<>>, n |-> i]
PyFloat(x) == [t |-> "float", s |-> <<>>, n |-> x]
PyBool(b) == [t |-> "bool", s |-> <<>>, n |-> IF b THEN 1 ELSE 0]
PyNone == [t |-> "NoneType", s |-> <<>>, n |-> 0]

\* isinstance(v, cls): bool is a subclass of int in Python
isinstance(v, cls) ==
    \/ v.t = cls
    \/ cls = "int" /\ v.t = "bool"

\* ------------------------------------------------------------ UTF-8 codec
RECURSIVE utf8_encode(_)
utf8_encode(cps) ==
    IF cps = <<>> THEN <<>>
    ELSE LET c == Head(cps)
             enc == IF c < 128 THEN <<c>>
                    ELSE IF c < 2048 THEN <<192 + (c \div 64), 128 + (c % 64)>>
                    ELSE <<224 + (c \div 4096), 128 + ((c \div 64) % 64), 128 + (c % 64)>>
         IN enc \o utf8_encode(Tail(cps))

IsCont(b) == b >= 128 /\ b <= 191

\* bytes.decode('utf-8'): [ok, s]; ok = FALSE stands for UnicodeDecodeError
RECURSIVE utf8_decode(_)
utf8_decode(bytes) ==
    IF bytes = <<>> THEN [ok |-> TRUE, s |-> <<>>]
    ELSE LET b == Head(bytes)
             n == Len(bytes)
             bad == [ok |-> FALSE, s |-> <<>>]
             then(cp, k) ==
                 LET rest == utf8_decode(SubSeq(bytes, k + 1, n))
                 IN IF rest.ok THEN [ok |-> TRUE, s |-> <<cp>> \o rest.s] ELSE bad
         IN IF b < 128 THEN then(b, 1)
            ELSE IF b >= 194 /\ b <= 223
                 THEN IF n >= 2 /\ IsCont(bytes[2])
                      THEN then((b - 192) * 64 + (bytes[2] - 128), 2)
                      ELSE bad
            ELSE IF b >= 224 /\ b <= 239
                 THEN IF n >= 3 /\ IsCont(bytes[2]) /\ IsCont(bytes[3])
                         /\ (b - 224) * 4096 + (bytes[2] - 128) * 64 + (bytes[3] - 128) >= 2048
                      THEN then((b - 224) * 4096 + (bytes[2] - 128) * 64 + (bytes[3] - 128), 3)
                      ELSE bad
            ELSE bad

\* ---------------------------------------------------------- native memory
\* a char*: addr tells apart the buffers allocated for one entry (0 for memory
\* the binding did not allocate), mem is what the native layer reads there
NULL == [null |-> TRUE, addr |-> 0, mem |-> <<>>]

\* a Python str passed as a char* argument: its bytes and the terminating NUL
c_str(bytes) == [null |-> FALSE, addr |-> 0, mem |-> bytes \o <<0>>]

\* ffi.new("const char[]", value): a fresh array holding the bytes and a NUL
ffi_new_chars(addr, bytes) == [null |-> FALSE, addr |-> addr, mem |-> bytes \o <<0>>]

RECURSIVE UpToNul(_)
UpToNul(mem) ==
    IF mem = <<>> \/ Head(mem) = 0 THEN <<>>
    ELSE <<Head(mem)>> \o UpToNul(Tail(mem))

\* ffi.string(ptr): the bytes up to the first NUL, as a Python 2 str
ffi_string(ptr) == PyStr(UpToNul(ptr.mem))

\* the union FreeLANLogPayload.value; fields not written are zero
ZeroValue == [as_string |-> NULL, as_integer |-> 0, as_float |-> 0, as_boolean |-> 0]

\* ------------------------------------------------------------ native calls
\* one call of the binding into the native library, with its arguments
NativeCall(fn) ==
    [fn |-> fn, head |-> <<>>, key |-> NULL, type |-> "", value |-> ZeroValue,
     file |-> NULL, line |-> 0]

\* variant: the buffer is not kept on the entry
owned_pointers_append_dropped(owned_pointers, str_value) == owned_pointers

\* log_attach(), line 64: entry.owned_pointers.append(str_value)
owned_pointers_append(owned_pointers, str_value) == Append(owned_pointers, str_value)

\* variant: a value of any other type is attached as a string
payload_type_lenient(v) ==
    IF isinstance(v, "bool") THEN "FREELAN_LOG_PAYLOAD_TYPE_BOOLEAN"
    ELSE IF isinstance(v, "int") THEN "FREELAN_LOG_PAYLOAD_TYPE_INTEGER"
    ELSE IF isinstance(v, "float") THEN "FREELAN_LOG_PAYLOAD_TYPE_FLOAT"
    ELSE "FREELAN_LOG_PAYLOAD_TYPE_STRING"

\* log_attach(), lines 59-73: the isinstance chain that picks the payload type
payload_type(v) ==
    IF isinstance(v, "str") THEN "FREELAN_LOG_PAYLOAD_TYPE_STRING"
    ELSE IF isinstance(v, "bool") THEN "FREELAN_LOG_PAYLOAD_TYPE_BOOLEAN"
    ELSE IF isinstance(v, "int") THEN "FREELAN_LOG_PAYLOAD_TYPE_INTEGER"
    ELSE IF isinstance(v, "float") THEN "FREELAN_LOG_PAYLOAD_TYPE_FLOAT"
    ELSE "TypeError"

\* log_attach(entry, key, value), lines 50-73: exc is the exception raised
\* ("none" when it returns), owned_pointers the entry's list afterwards, call
\* the native.freelan_log_attach call it issues
log_attach(owned_pointers, key, value) ==
    LET k == IF isinstance(key, "unicode") THEN PyStr(utf8_encode(key.s)) ELSE key
        v == IF isinstance(value, "unicode") THEN PyStr(utf8_encode(value.s)) ELSE value
        attach(type, val) ==
            [NativeCall("freelan_log_attach") EXCEPT !.key = c_str(k.s), !.type = type, !.value = val]
        raise == [exc |-> "TypeError", owned_pointers |-> owned_pointers,
                  call |-> NativeCall("")]
        type == payload_type(v)
    IN IF ~isinstance(k, "str") THEN raise
       ELSE IF type = "FREELAN_LOG_PAYLOAD_TYPE_STRING"
            THEN LET str_value == ffi_new_chars(Len(owned_pointers) + 1, v.s)
                 IN [exc |-> "none",
                     owned_pointers |-> owned_pointers_append(owned_pointers, str_value),
                     call |-> attach(type, [ZeroValue EXCEPT !.as_string = str_value])]
       ELSE IF type = "FREELAN_LOG_PAYLOAD_TYPE_BOOLEAN"
            THEN [exc |-> "none", owned_pointers |-> owned_pointers,
                  call |-> attach(type, [ZeroValue EXCEPT !.as_boolean = v.n])]
       ELSE IF type = "FREELAN_LOG_PAYLOAD_TYPE_INTEGER"
            THEN [exc |-> "none", owned_pointers |-> owned_pointers,
                  call |-> attach(type, [ZeroValue EXCEPT !.as_integer = v.n])]
       ELSE IF type = "FREELAN_LOG_PAYLOAD_TYPE_FLOAT"
            THEN [exc |-> "none", owned_pointers |-> owned_pointers,
                  call |-> attach(type, [ZeroValue EXCEPT !.as_float = v.n])]
       ELSE raise

\* log(), lines 94-96 and 115-116: the file and line handed to
\* native.freelan_log (single-shot) or native.freelan_log_start
log_location(file, line, single_shot) ==
    LET file1 == IF file = PyNone THEN NULL ELSE c_str(file.s)
        line1 == IF file = PyNone THEN 0 ELSE line
        truthy == ~file1.null /\ file.s # <<>>
    IN IF single_shot THEN [file |-> file1, line |-> line1]
       ELSE [file |-> IF ~truthy THEN NULL ELSE file1,
             line |-> IF truthy THEN line1 ELSE 0]

\* variant: the entry is left open
log_complete_skipped(cs) == cs

\* log(), line 127: the native entry is completed
log_complete(cs) == Append(cs, NativeCall("freelan_log_complete"))

\* log(), lines 99-108 and 126-127: how the call ends.  e is the exception in
\* flight when the finally clause runs ("none" on the normal path), r what
\* the native call returned; a return inside finally discards e.
log_return(e, r) ==
    [op |-> "log", kind |-> "return", value |-> IF r # 0 THEN 1 ELSE 0,
     exc |-> "none", lost |-> e, handler |-> PyNone, invoked |-> FALSE, hret |-> FALSE]

\* ------------------------------------------------------ the handler slot
PyFunction(id) == [t |-> "function", s |-> <<id>>, n |-> 1]
\* an instance of a class with __call__ whose __nonzero__ returns truth
PyCallable(id, truth) == [t |-> "instance", s |-> <<id>>, n |-> IF truth THEN 1 ELSE 0]

\* bool(v) in Python 2
Truthy(v) ==
    IF v.t \in {"str", "unicode"} THEN v.s # <<>>
    ELSE IF v.t = "NoneType" THEN FALSE
    ELSE v.n # 0

\* CALLBACKS.get('logging_function')
CALLBACKS_get(cb) ==
    IF "logging_function" \in DOMAIN cb THEN cb["logging_function"] ELSE PyNone

\* variant: None does not replace the handler in the slot
set_logging_function_keep(cb, func) ==
    [CALLBACKS |-> [k \in DOMAIN cb \cup {"logging_function"} |->
                       IF k = "logging_function" /\ (func # PyNone \/ k \notin DOMAIN cb)
                       THEN func ELSE cb[k]],
     native_callback |-> IF func = PyNone THEN "NULL" ELSE "c_logging_callback"]

\* variant: the truth value of func, not its identity with None, picks the callback
set_logging_function_truthy(cb, func) ==
    [CALLBACKS |-> [k \in DOMAIN cb \cup {"logging_function"} |->
                       IF k = "logging_function" THEN func ELSE cb[k]],
     native_callback |-> IF ~Truthy(func) THEN "NULL" ELSE "c_logging_callback"]

\* set_logging_function(func), lines 140-145
set_logging_function(cb, func) ==
    [CALLBACKS |-> [k \in DOMAIN cb \cup {"logging_function"} |->
                       IF k = "logging_function" THEN func ELSE cb[k]],
     native_callback |-> IF func = PyNone THEN "NULL" ELSE "c_logging_callback"]

\* ------------------------------------------------ native -> Python decode
\* class LogLevel(Enum), lines 10-17: native constant -> member
LogLevel ==
    [FREELAN_LOG_LEVEL_FATAL |-> "fatal", FREELAN_LOG_LEVEL_ERROR |-> "error",
     FREELAN_LOG_LEVEL_WARNING |-> "warning", FREELAN_LOG_LEVEL_IMPORTANT |-> "important",
     FREELAN_LOG_LEVEL_INFORMATION |-> "information", FREELAN_LOG_LEVEL_DEBUG |-> "debug",
     FREELAN_LOG_LEVEL_TRACE |-> "trace"]

\* utc_timestamp_to_utc_datetime(ts), line 37, for whole seconds
utc_timestamp_to_utc_datetime(ts) ==
    [day |-> ts \div 86400, hour |-> (ts % 86400) \div 3600,
     minute |-> (ts % 3600) \div 60, second |-> ts % 60]

\* from_native_payload(payload), lines 155-168
from_native_payload(p) ==
    LET key == ffi_string(p.key)
        ok(value) == [exc |-> "none", key |-> key, value |-> value]
    IN IF p.type = "FREELAN_LOG_PAYLOAD_TYPE_STRING"
       THEN LET d == utf8_decode(ffi_string(p.value.as_string).s)
            IN IF d.ok THEN ok(PyUnicode(d.s))
               ELSE [exc |-> "UnicodeDecodeError", key |-> key, value |-> PyNone]
       ELSE IF p.type = "FREELAN_LOG_PAYLOAD_TYPE_INTEGER" THEN ok(PyInt(p.value.as_integer))
       ELSE IF p.type = "FREELAN_LOG_PAYLOAD_TYPE_FLOAT" THEN ok(PyFloat(p.value.as_float))
       ELSE IF p.type = "FREELAN_LOG_PAYLOAD_TYPE_BOOLEAN" THEN ok(PyBool(p.value.as_boolean # 0))
       ELSE ok(PyNone)

\* logging_callback, lines 187-193: the dict comprehension over payload[i];
\* a dict is a set of items with distinct keys, a later item replaces an
\* earlier one with the same key
RECURSIVE payload_dict(_, _)
payload_dict(arr, d) ==
    IF arr = <<>> THEN [exc |-> "none", items |-> d]
    ELSE LET kv == from_native_payload(Head(arr))
         IN IF kv.exc # "none" THEN [exc |-> kv.exc, items |-> {}]
            ELSE payload_dict(Tail(arr),
                     {it \in d : it.key # kv.key} \cup {[key |-> kv.key, value |-> kv.value]})

NoEvent ==
    [level |-> "", timestamp |-> utc_timestamp_to_utc_datetime(0), domain |-> PyNone,
     code |-> PyNone, payload |-> {}, file |-> PyNone, line |-> 0]

\* variant: the native line is passed on whatever the file pointer
event_line_unchanged(a) == a.line

\* logging_callback, lines 194-195: the file and line given to the handler
event_file(a) == IF a.file # NULL THEN ffi_string(a.file) ELSE PyNone
event_line(a) == IF a.file # NULL THEN a.line ELSE 0

\* logging_callback, lines 183-195: the keyword arguments of the handler call,
\* evaluated in order; exc is the first exception an argument raises
handler_arguments(a) ==
    IF a.level \notin DOMAIN LogLevel THEN [exc |-> "ValueError", event |-> NoEvent]
    ELSE LET d == payload_dict(SubSeq(a.payload, 1, a.payload_size), {})
         IN IF d.exc # "none" THEN [exc |-> d.exc, event |-> NoEvent]
            ELSE [exc |-> "none",
                  event |-> [level |-> LogLevel[a.level],
                             timestamp |-> utc_timestamp_to_utc_datetime(a.timestamp),
                             domain |-> ffi_string(a.domain),
                             code |-> ffi_string(a.code),
                             payload |-> d.items,
                             file |-> event_file(a),
                             line |-> event_line(a)]]

\* logging_callback, lines 179-182 and 198: the handler it calls, if any
logging_function(cb) == CALLBACKS_get(cb)

\* logging_callback, lines 182 and 196-198: what it returns to the native layer
logging_callback_return(handler, invoked, hret) ==
    [op |-> "logging_callback", kind |-> "return",
     value |-> IF invoked /\ hret THEN 1 ELSE 0,
     exc |-> "none", lost |-> "none", handler |-> handler, invoked |-> invoked, hret |-> hret]

logging_callback_raise(handler, e) ==
    [op |-> "logging_callback", kind |-> "raise", value |-> 0,
     exc |-> e, lost |-> "none", handler |-> handler, invoked |-> FALSE, hret |-> FALSE]

\* ------------------------------------------------------------------ inputs
\* u"\u00e9" (multi-byte in UTF-8), "a", and a key that is not text
Keys == {PyUnicode(<<233>>), PyStr(<<97>>), PyInt(1)}

\* u"\u00e9", u"a\0b", the byte string "\xff", True, 1, 1.0 and None
Values ==
    {PyUnicode(<<233>>), PyUnicode(<<97, 0, 98>>), PyStr(<<255>>), PyBool(TRUE), PyInt(1),
     PyFloat(1), PyNone}

Pairs == [key : Keys, value : Values]

\* the payload dictionary in iteration order: distinct keys
Payloads ==
    UNION {{p \in [1..k -> Pairs] : \A x, y \in 1..k : x # y => p[x].key # p[y].key} :
           k \in 0..MaxPayload}

Files == {PyNone, PyStr(<<>>), PyStr(<<102>>)}
Lines == {0, 7}
EmitLevels == {"FREELAN_LOG_LEVEL_ERROR"}
NativeLevels == {"FREELAN_LOG_LEVEL_FATAL", "FREELAN_LOG_LEVEL_TRACE", "FREELAN_LOG_LEVEL_UNKNOWN"}
Timestamps == {0, 90061}
Domain == <<100>>
Code == <<99>>

Handlers == {PyFunction(1), PyFunction(2), PyCallable(3, FALSE)}

NativePayload(key, type, value) == [key |-> c_str(key), type |-> type, value |-> value]

\* payload entries the native layer may hand to the callback: a UTF-8 string,
\* a string that is not UTF-8, an integer, a float, a boolean, an unknown tag
NativePayloads ==
    {NativePayload(<<195, 169>>, "FREELAN_LOG_PAYLOAD_TYPE_STRING",
                   [ZeroValue EXCEPT !.as_string = c_str(<<195, 169>>)]),
     NativePayload(<<97>>, "FREELAN_LOG_PAYLOAD_TYPE_STRING",
                   [ZeroValue EXCEPT !.as_string = c_str(<<255>>)]),
     NativePayload(<<98>>, "FREELAN_LOG_PAYLOAD_TYPE_INTEGER",
                   [ZeroValue EXCEPT !.as_integer = 1]),
     NativePayload(<<99>>, "FREELAN_LOG_PAYLOAD_TYPE_FLOAT",
                   [ZeroValue EXCEPT !.as_float = 1]),
     NativePayload(<<98>>, "FREELAN_LOG_PAYLOAD_TYPE_BOOLEAN",
                   [ZeroValue EXCEPT !.as_boolean = 1]),
     NativePayload(<<100>>, "FREELAN_LOG_PAYLOAD_TYPE_UNKNOWN", ZeroValue)}

PayloadArrays == UNION {[1..k -> NativePayloads] : k \in 0..MaxPayloadSize}

NativeFiles == {NULL, c_str(<<102>>)}

\* ------------------------------------------------------------------- state
VARIABLES
    CALLBACKS,        \* the module-level dict, line 130
    native_callback,  \* what the native layer was last given as its callback
    last_func,        \* the argument of the latest set_logging_function call
    pc,               \* where the running call stands; "idle" between calls
    payload,          \* log(): the payload items in iteration order
    i,                \* log(): the item the for loop is at
    owned_pointers,   \* log(): entry.owned_pointers
    pending,          \* log_attach(): the native call about to be made
    calls,            \* the native calls the running log() has made, in order
    exc,              \* log(): the exception in flight
    ret,              \* log(): what the last native call returned
    args,             \* logging_callback(): its arguments
    event,            \* logging_callback(): what the handler is called with
    outcome           \* how the latest call ended

vars ==
    <<CALLBACKS, native_callback, last_func, pc, payload, i, owned_pointers, pending,
      calls, exc, ret, args, event, outcome>>

log_vars == <<payload, i, owned_pointers, pending, calls, exc, ret>>
slot_vars == <<CALLBACKS, native_callback, last_func>>
callback_vars == <<args, event>>

Never == [t |-> "never", s |-> <<>>, n |-> 0]
NoCall == NativeCall("")
NoArgs ==
    [level |-> "", timestamp |-> 0, domain |-> NULL, code |-> NULL, payload_size |-> 0,
     payload |-> <<>>, file |-> NULL, line |-> 0]

Running(op) ==
    [op |-> op, kind |-> "running", value |-> 0, exc |-> "none", lost |-> "none",
     handler |-> PyNone, invoked |-> FALSE, hret |-> FALSE]

\* CALLBACKS = {} at import (line 130); the native layer starts without a
\* callback, and the properties below look at it only after a set call
Init ==
    /\ CALLBACKS = [k \in {} |-> PyNone]
    /\ native_callback = "NULL"
    /\ last_func = Never
    /\ pc = "idle"
    /\ payload = <<>>
    /\ i = 0
    /\ owned_pointers = <<>>
    /\ pending = NoCall
    /\ calls = <<>>
    /\ exc = "none"
    /\ ret = 0
    /\ args = NoArgs
    /\ event = NoEvent
    /\ outcome = Running("")

\* ----------------------------------------------------------------- log()
\* lines 94-121: the call up to the single-shot native call or to the start
\* of the entry; r is what native.freelan_log returns
LogCall ==
    /\ pc = "idle"
    /\ \E level \in EmitLevels, ts \in Timestamps, p \in Payloads, file \in Files,
          line \in Lines, r \in {0, 1} :
         LET head == <<level, ts, c_str(Domain), c_str(Code)>>
             loc == log_location(file, line, p = <<>>)
             call(fn) == [NativeCall(fn) EXCEPT !.head = head, !.file = loc.file,
                                                !.line = loc.line]
         IN /\ payload' = p
            /\ IF p = <<>>
               THEN /\ calls' = <<call("freelan_log")>>
                    /\ ret' = r
                    /\ i' = 0
                    /\ pc' = "return"
               ELSE /\ calls' = <<call("freelan_log_start")>>
                    /\ ret' = 0
                    /\ i' = 1
                    /\ pc' = "loop"
    /\ owned_pointers' = <<>>
    /\ pending' = NoCall
    /\ exc' = "none"
    /\ outcome' = Running("log")
    /\ UNCHANGED <<slot_vars, callback_vars>>

\* log_attach(), lines 50-64: the arguments of the native call are ready and
\* the buffer of a string value is on entry.owned_pointers
LogAttachPrepare ==
    /\ pc = "loop"
    /\ i <= Len(payload)
    /\ LET r == log_attach(owned_pointers, payload[i].key, payload[i].value)
       IN /\ r.exc = "none"
          /\ owned_pointers' = r.owned_pointers
          /\ pending' = r.call
    /\ pc' = "attach"
    /\ UNCHANGED <<payload, i, calls, exc, ret, slot_vars, callback_vars, outcome>>

\* log_attach(), lines 65-71: native.freelan_log_attach is called
LogAttachNative ==
    /\ pc = "attach"
    /\ calls' = Append(calls, pending)
    /\ pending' = NoCall
    /\ i' = i + 1
    /\ pc' = "loop"
    /\ UNCHANGED <<payload, owned_pointers, exc, ret, slot_vars, callback_vars, outcome>>

\* log_attach(), lines 54 and 73: the pair is refused
LogAttachRaise ==
    /\ pc = "loop"
    /\ i <= Len(payload)
    /\ LET r == log_attach(owned_pointers, payload[i].key, payload[i].value)
       IN /\ r.exc # "none"
          /\ exc' = r.exc
    /\ pc' = "finally"
    /\ UNCHANGED <<payload, i, owned_pointers, pending, calls, ret, slot_vars,
                   callback_vars, outcome>>

\* lines 126-127: the finally clause calls native.freelan_log_complete, after
\* the loop ran out or an exception left it; r is what the native call returns
LogComplete ==
    /\ \/ pc = "loop" /\ i > Len(payload)
       \/ pc = "finally"
    /\ calls' = log_complete(calls)
    /\ \E r \in {0, 1} : ret' = r
    /\ pc' = "return"
    /\ UNCHANGED <<payload, i, owned_pointers, pending, exc, slot_vars, callback_vars,
                   outcome>>

\* lines 99-108 and 127: log() ends; its locals and the entry are gone
LogReturn ==
    /\ pc = "return"
    /\ outcome' = log_return(exc, ret)
    /\ pc' = "idle"
    /\ payload' = <<>>
    /\ i' = 0
    /\ owned_pointers' = <<>>
    /\ pending' = NoCall
    /\ calls' = <<>>
    /\ exc' = "none"
    /\ ret' = 0
    /\ UNCHANGED <<slot_vars, callback_vars>>

\* ------------------------------------------------- set_logging_function()
SetLoggingFunction ==
    /\ pc = "idle"
    /\ \E func \in Handlers \cup {PyNone} :
         LET r == set_logging_function(CALLBACKS, func)
         IN /\ CALLBACKS' = r.CALLBACKS
            /\ native_callback' = r.native_callback
            /\ last_func' = func
    /\ outcome' = [Running("set_logging_function") EXCEPT !.kind = "return"]
    /\ UNCHANGED <<pc, log_vars, callback_vars>>

\* ----------------------------------------------------- logging_callback()
\* lines 179-196 up to the call of the handler, or the whole call when no
\* handler is called
LoggingCallback ==
    /\ pc = "idle"
    /\ \E level \in NativeLevels, ts \in Timestamps, arr \in PayloadArrays,
          file \in NativeFiles, line \in Lines :
         LET a == [level |-> level, timestamp |-> ts, domain |-> c_str(Domain),
                   code |-> c_str(Code), payload_size |-> Len(arr), payload |-> arr,
                   file |-> file, line |-> line]
             f == logging_function(CALLBACKS)
             h == handler_arguments(a)
         IN IF ~Truthy(f)
            THEN /\ outcome' = logging_callback_return(f, FALSE, FALSE)
                 /\ UNCHANGED <<pc, args, event>>
            ELSE IF h.exc # "none"
            THEN /\ outcome' = logging_callback_raise(f, h.exc)
                 /\ UNCHANGED <<pc, args, event>>
            ELSE /\ outcome' = Running("logging_callback")
                 /\ pc' = "handler"
                 /\ args' = a
                 /\ event' = h.event
    /\ UNCHANGED <<log_vars, slot_vars>>

\* lines 182 and 196: the handler returns hret and the callback returns
HandlerReturn ==
    /\ pc = "handler"
    /\ \E hret \in BOOLEAN :
         outcome' = logging_callback_return(logging_function(CALLBACKS), TRUE, hret)
    /\ pc' = "idle"
    /\ args' = NoArgs
    /\ event' = NoEvent
    /\ UNCHANGED <<log_vars, slot_vars>>

\* The binding runs on the caller's thread and no call suspends: a call of
\* log(), set_logging_function() or logging_callback() starts when none is
\* running (pc = "idle"); log() and logging_callback() are stepped through
\* their native calls and the handler call.
Next ==
    \/ LogCall
    \/ LogAttachPrepare
    \/ LogAttachNative
    \/ LogAttachRaise
    \/ LogComplete
    \/ LogReturn
    \/ SetLoggingFunction
    \/ LoggingCallback
    \/ HandlerReturn

Spec == Init /\ [][Next]_vars

\* ------------------------------------------------------------- properties
\* a == b in Python 2: text compares by characters, a unicode and a str are
\* equal only when the str is ASCII with the same characters; numbers and
\* booleans compare by value
PyEq(a, b) ==
    IF a.t \in {"str", "unicode"} /\ b.t \in {"str", "unicode"}
    THEN /\ a.s = b.s
         /\ a.t # b.t => \A j \in 1..Len(a.s) : a.s[j] < 128
    ELSE IF a.t \in {"int", "bool", "float"} /\ b.t \in {"int", "bool", "float"}
    THEN a.n = b.n
    ELSE a.t = b.t /\ a.s = b.s /\ a.n = b.n

\* the payload type of a Python value
TypeTag(v) ==
    IF v.t \in {"str", "unicode"} THEN "string"
    ELSE IF v.t = "bool" THEN "boolean"
    ELSE IF v.t = "int" THEN "integer"
    ELSE IF v.t = "float" THEN "float"
    ELSE "unsupported"

IsText(v) == v.t \in {"str", "unicode"}
Supported(v) == TypeTag(v) # "unsupported"
BadPair(p) == ~IsText(p.key) \/ ~Supported(p.value)
MultiByte(v) == v.t = "unicode" /\ \E j \in 1..Len(v.s) : v.s[j] >= 128

\* the bytes of a text value as the native layer is given them
TextBytes(v) == IF v.t = "unicode" THEN utf8_encode(v.s) ELSE v.s

\* the payload items whose native attach call has been made: the loop stops
\* at the first refused item, so the j-th attach call is for payload[j]
Attached ==
    {j \in 1..Len(payload) : j + 1 <= Len(calls) /\ calls[j + 1].fn = "freelan_log_attach"}

\* the native payload entry the j-th attach call produced
Entry(j) == [key |-> calls[j + 1].key, type |-> calls[j + 1].type, value |-> calls[j + 1].value]

Completed == {j \in 1..Len(calls) : calls[j].fn = "freelan_log_complete"}
Started == calls # <<>> /\ calls[1].fn = "freelan_log_start"

\* C1: when the payload holds a pair with an unsupported value type or a key
\* that is not text, log() ends by raising and does not return a boolean.
C1_ViolationRaised ==
    [][(pc = "return" /\ \E j \in 1..Len(payload) : BadPair(payload[j]))
         => outcome'.kind = "raise"]_vars

\* C2: once the entry is started, native complete is called exactly once
\* before log() ends, after the last attach call, whether every attach
\* succeeded or one raised; no native call follows complete.
C2_CompleteOnce ==
    /\ (pc = "return" /\ Started) => Cardinality(Completed) = 1
    /\ \A j \in Completed : j = Len(calls)
    /\ (Started /\ pc # "return") => Completed = {}

C2_Witness ==
    /\ pc = "return"
    /\ exc = "TypeError"
    /\ Len(calls) = 3
    /\ calls[2].fn = "freelan_log_attach"
    /\ calls[3].fn = "freelan_log_complete"

\* C3: no native attach call is ever made for the key of a pair whose value
\* has an unsupported type, and when complete is called after such a pair
\* was refused, every pair before it has its attach call on the entry.
C3_RefusedNotAttached ==
    /\ \A j \in 1..Len(payload) :
          (IsText(payload[j].key) /\ ~Supported(payload[j].value))
            => \A c \in 2..Len(calls) :
                  calls[c].fn = "freelan_log_attach"
                    => calls[c].key # c_str(TextBytes(payload[j].key))
    /\ (pc = "return" /\ exc = "TypeError")
         => /\ Attached = 1..(i - 1)
            /\ \A j \in 1..(i - 1) : calls[j + 1].key = c_str(TextBytes(payload[j].key))
            /\ calls[Len(calls)].fn = "freelan_log_complete"

C3_Witness ==
    /\ pc = "return"
    /\ exc = "TypeError"
    /\ i = 2
    /\ IsText(payload[2].key)
    /\ ~Supported(payload[2].value)
    /\ Attached = {1}

\* C4: every attached value of a supported type decodes, with
\* from_native_payload, to an equal value with the same type tag.
C4_ValueRoundTrip ==
    \A j \in Attached :
        LET d == from_native_payload(Entry(j))
        IN /\ d.exc = "none"
           /\ TypeTag(d.value) = TypeTag(payload[j].value)
           /\ PyEq(d.value, payload[j].value)

\* C5: the callback calls a handler and returns 1 only if the latest set call
\* installed a handler and that handler returned a truthy value; with no set
\* call, or the latest one passing None, it returns 0 and calls no handler; a
\* falsy handler result gives 0.
C5_HandlerDispatch ==
    /\ pc = "handler" => (last_func \in Handlers /\ logging_function(CALLBACKS) = last_func)
    /\ (outcome.op = "logging_callback" /\ outcome.kind # "running")
         => /\ (outcome.invoked \/ outcome.value = 1)
                  => (last_func \in Handlers /\ outcome.handler = last_func)
            /\ outcome.value = 1 => (outcome.invoked /\ outcome.hret)
            /\ last_func \in {Never, PyNone}
                  => (outcome.kind = "return" /\ outcome.value = 0 /\ ~outcome.invoked)
            /\ (outcome.invoked /\ ~outcome.hret)
                  => (outcome.kind = "return" /\ outcome.value = 0)

C5_Witness ==
    /\ outcome.op = "logging_callback"
    /\ outcome.kind = "return"
    /\ last_func = PyNone
    /\ outcome.value = 0
    /\ ~outcome.invoked

\* C6: after any set_logging_function call the native layer holds the bridge
\* callback exactly when the slot holds a handler other than None.
C6_BridgeIffHandler ==
    last_func # Never
      => /\ "logging_function" \in DOMAIN CALLBACKS
         /\ CALLBACKS["logging_function"] = last_func
         /\ native_callback = "c_logging_callback" <=> CALLBACKS["logging_function"] # PyNone
         /\ native_callback \in {"c_logging_callback", "NULL"}

C6_Witness ==
    /\ outcome.op = "set_logging_function"
    /\ last_func = PyCallable(3, FALSE)
    /\ native_callback = "c_logging_callback"

\* C7: with a handler installed the callback never raises: it calls the
\* handler and returns 0 or 1 whatever the level code and payload entries.
C7_NeverRaises ==
    (outcome.op = "logging_callback" /\ outcome.kind # "running" /\ Truthy(last_func))
      => /\ outcome.kind = "return"
         /\ outcome.invoked
         /\ outcome.value \in {0, 1}

\* C8: a text key and text value with multi-byte characters come back from
\* from_native_payload as the same text, key and value alike.
C8_MultiByteRoundTrip ==
    \A j \in Attached :
        (MultiByte(payload[j].key) /\ MultiByte(payload[j].value))
          => LET d == from_native_payload(Entry(j))
             IN /\ d.exc = "none"
                /\ d.key.t = "unicode" /\ PyEq(d.key, payload[j].key)
                /\ d.value.t = "unicode" /\ PyEq(d.value, payload[j].value)

\* C9: the handler is given file None and line 0 when the native file pointer
\* is null, whatever the native line; otherwise the file's bytes and the
\* native line unchanged.
C9_NullFileLine ==
    pc = "handler"
      => /\ args.file.null => (event.file = PyNone /\ event.line = 0)
         /\ ~args.file.null
              => /\ event.file.t = "str"
                 /\ event.file.s \o <<0>> = args.file.mem
                 /\ event.line = args.line

C9_Witness ==
    /\ pc = "handler"
    /\ args.file.null
    /\ args.line = 7
    /\ event.line = 0

\* C10: the buffer behind every string value is on entry.owned_pointers
\* before its native attach call and stays there, unchanged, up to and
\* including the complete call; values that are not strings add no buffer.
StringItems(n) == {j \in 1..n : IsText(payload[j].value)}

C10_BuffersOwned ==
    /\ pending.type = "FREELAN_LOG_PAYLOAD_TYPE_STRING"
         => \E k \in 1..Len(owned_pointers) : owned_pointers[k] = pending.value.as_string
    /\ \A j \in Attached :
          IsText(payload[j].value)
            => \E k \in 1..Len(owned_pointers) :
                  /\ owned_pointers[k] = calls[j + 1].value.as_string
                  /\ owned_pointers[k].mem = TextBytes(payload[j].value) \o <<0>>
    /\ pc \in {"loop", "finally", "return"}
         => Len(owned_pointers) = Cardinality(StringItems(Cardinality(Attached)))
    /\ \A k \in 1..Len(owned_pointers) : owned_pointers[k].addr = k

C10_Witness ==
    /\ pc = "return"
    /\ Len(payload) = 2
    /\ Attached = {1, 2}
    /\ IsText(payload[1].value)
    /\ ~IsText(payload[2].value)
    /\ Len(owned_pointers) = 1
    /\ calls[Len(calls)].fn = "freelan_log_complete"
====
